---- MODULE Spec2Model ----
(***************************************************************************)
(* Model of the Token contract (contracts/Token.sol, given in the README). *)
(* Every call is one EVM transaction: it either runs to completion or      *)
(* reverts, restoring the storage it started from.                         *)
(*                                                                         *)
(* The contract's words are uint (uint256) under Solidity ^0.8.0, whose    *)
(* arithmetic is checked.  The word width is scaled to WordBits bits so    *)
(* that the largest word is a number TLC can hold; totalSupply (1000)      *)
(* stays far below it, as it does below 2^256.                             *)
(***************************************************************************)
EXTENDS Integers, FiniteSets, Sequences, TLC

VARIABLES
    totalSupply,   \* uint public totalSupply
    balances,      \* mapping(address => uint) public balances
    last,          \* the call that produced this state, and its outcome
    pre,           \* the storage as it was when that call started
    received,      \* accounts credited at construction or by a transfer
    exec,          \* the transfer being executed statement by statement
    waiting,       \* a transfer submitted and not yet started
    serial,        \* the storage had every finished transfer run in one step
    script         \* the run of the deployment script

vars == <<totalSupply, balances, last, pre, received, exec, waiting, serial,
          script>>

\* number of account identities that call the contract
NumAccounts == 3

\* width of the scaled uint word
WordBits == 16

\* uint public totalSupply = 1000;
InitialSupply == 1000

Address == 1..NumAccounts

UintMax == 2^WordBits - 1

\* amounts a caller passes: nothing, two partial amounts, the whole supply,
\* one more than the supply, and the largest word
Amounts == {0, 100, 300, InitialSupply, InitialSupply + 1, UintMax}

RECURSIVE SumOver(_, _)
SumOver(f, S) ==
    IF S = {} THEN 0
    ELSE LET a == CHOOSE x \in S : TRUE
         IN  f[a] + SumOver(f, S \ {a})

\* sum of the balances of all accounts
Sum(bal) == SumOver(bal, Address)

\* the storage a call works on
Storage == [totalSupply |-> totalSupply, balances |-> balances]

\* the debit computed but not stored: the sender keeps its balance
checkedSub_nodebit(a, b) ==
    IF b > a THEN [ok |-> FALSE, val |-> 0]
    ELSE [ok |-> TRUE, val |-> a]

\* a - b in checked arithmetic: Panic(0x11) on underflow
checkedSub(a, b) ==
    IF b > a THEN [ok |-> FALSE, val |-> 0]
    ELSE [ok |-> TRUE, val |-> a - b]

\* balances[to] = amount instead of balances[to] += amount
checkedAdd_assign(a, b) ==
    IF a + b > UintMax THEN [ok |-> FALSE, val |-> 0]
    ELSE [ok |-> TRUE, val |-> b]

\* the credit applied twice over
checkedAdd_twice(a, b) ==
    IF a + b + b > UintMax THEN [ok |-> FALSE, val |-> 0]
    ELSE [ok |-> TRUE, val |-> a + b + b]

\* a + b in checked arithmetic: Panic(0x11) on overflow
checkedAdd(a, b) ==
    IF a + b > UintMax THEN [ok |-> FALSE, val |-> 0]
    ELSE [ok |-> TRUE, val |-> a + b]

\* the outcome of a reverted call: the storage is the one it started from
Revert(st, reason) == [status |-> "reverted", error |-> reason, st |-> st]

\* require(balances[msg.sender] > amount, ...): a strict comparison
sufficient_strict(bal, msgSender, amount) == bal[msgSender] > amount

\* the same check with a zero amount rejected as well
sufficient_nonzero(bal, msgSender, amount) ==
    bal[msgSender] >= amount /\ amount > 0

\* the condition of require(balances[msg.sender] >= amount, ...)
sufficient(bal, msgSender, amount) == bal[msgSender] >= amount

\* a constructor that leaves the supply uncredited
constructor_nocredit(msgSender) ==
    [totalSupply |-> InitialSupply, balances |-> [a \in Address |-> 0]]

\* state variable initialisers and constructor() { balances[msg.sender] = totalSupply; }
constructor(msgSender) ==
    LET supply == InitialSupply
        zero   == [a \in Address |-> 0]
    IN  [totalSupply |-> supply,
         balances    |-> [zero EXCEPT ![msgSender] = supply]]

\* the credit applied before the check, and a failure reported without
\* undoing it
transfer_softfail(st, msgSender, to, amount) ==
    IF st.balances[msgSender] >= amount
    THEN [status |-> "ok", error |-> "",
          st |-> [st EXCEPT !.balances =
                     [[st.balances EXCEPT ![msgSender] = @ - amount]
                         EXCEPT ![to] = @ + amount]]]
    ELSE [status |-> "reverted", error |-> "Not enough tokens!",
          st |-> [st EXCEPT !.balances =
                     [st.balances EXCEPT ![to] = (@ + amount) % (UintMax + 1)]]]

\* no require, and the arithmetic in an unchecked block: the debit wraps
transfer_unchecked(st, msgSender, to, amount) ==
    LET b1 == [st.balances EXCEPT ![msgSender] = (@ - amount) % (UintMax + 1)]
    IN  [status |-> "ok", error |-> "",
         st |-> [st EXCEPT !.balances =
                    [b1 EXCEPT ![to] = (@ + amount) % (UintMax + 1)]]]

\* both new balances computed from the balances read before the debit
transfer_stale(st, msgSender, to, amount) ==
    IF st.balances[msgSender] < amount
    THEN Revert(st, "Not enough tokens!")
    ELSE LET debited  == st.balances[msgSender] - amount
             credited == st.balances[to] + amount
         IN  [status |-> "ok", error |-> "",
              st |-> [st EXCEPT !.balances =
                         [[st.balances EXCEPT ![msgSender] = debited]
                             EXCEPT ![to] = credited]]]

\* the debit taken from totalSupply as well as from the sender
transfer_burn(st, msgSender, to, amount) ==
    IF st.balances[msgSender] < amount
    THEN Revert(st, "Not enough tokens!")
    ELSE [status |-> "ok", error |-> "",
          st |-> [totalSupply |-> st.totalSupply - amount,
                  balances |-> [[st.balances EXCEPT ![msgSender] = @ - amount]
                                   EXCEPT ![to] = @ + amount]]]

\* the credit stored under a fixed account (the first) instead of to
transfer_fixedRecipient(st, msgSender, to, amount) ==
    IF st.balances[msgSender] < amount
    THEN Revert(st, "Not enough tokens!")
    ELSE [status |-> "ok", error |-> "",
          st |-> [st EXCEPT !.balances =
                     [[st.balances EXCEPT ![msgSender] = @ - amount]
                         EXCEPT ![1] = @ + amount]]]

\* sender and recipient swapped: the check and the debit fall on to
transfer_swapped(st, msgSender, to, amount) ==
    IF st.balances[to] < amount
    THEN Revert(st, "Not enough tokens!")
    ELSE [status |-> "ok", error |-> "",
          st |-> [st EXCEPT !.balances =
                     [[st.balances EXCEPT ![to] = @ - amount]
                         EXCEPT ![msgSender] = @ + amount]]]

\* function transfer(address to, uint amount) external
transfer(st, msgSender, to, amount) ==
    IF ~sufficient(st.balances, msgSender, amount)
    THEN Revert(st, "Not enough tokens!")
    ELSE LET d == checkedSub(st.balances[msgSender], amount)
         IN  IF ~d.ok THEN Revert(st, "Panic(0x11)")
             ELSE LET b1 == [st.balances EXCEPT ![msgSender] = d.val]
                      c  == checkedAdd(b1[to], amount)
                  IN  IF ~c.ok THEN Revert(st, "Panic(0x11)")
                      ELSE [status |-> "ok", error |-> "",
                            st |-> [st EXCEPT !.balances =
                                        [b1 EXCEPT ![to] = c.val]]]

\* return balances[msg.sender]: the caller's balance, not the account's
balanceOf_caller(st, msgSender, account) == st.balances[msgSender]

\* function balanceOf(address account) public view returns (uint)
balanceOf(st, msgSender, account) == st.balances[account]

Call(op, sender, to, amount, account, status, error, ret) ==
    [op |-> op, sender |-> sender, to |-> to, amount |-> amount,
     account |-> account, status |-> status, error |-> error, ret |-> ret]

\* the storage of an address that holds no contract yet
EmptyStorage == [totalSupply |-> 0, balances |-> [a \in Address |-> 0]]

\* a call frame: the statement it is about to execute, its arguments and
\* the storage to restore on revert
Frame(pc, call, snapshot) ==
    [pc |-> pc, sender |-> call.sender, to |-> call.to,
     amount |-> call.amount, overlapped |-> call.overlapped,
     snapshot |-> snapshot]

\* no transfer is waiting
NoCall == [sender |-> 0, to |-> 0, amount |-> 0, overlapped |-> FALSE]

\* no transfer is executing
Idle == Frame("idle", NoCall, EmptyStorage)

\* no script is running
NoScript == [file |-> "none", pc |-> "none"]

\* the state after the deployment transaction of any deployer
Init ==
    \E creator \in Address :
        LET st == constructor(creator)
        IN  /\ totalSupply = st.totalSupply
            /\ balances = st.balances
            /\ last = Call("constructor", creator, creator, 0, creator, "ok", "", 0)
            /\ pre = st
            /\ received = {a \in Address : st.balances[a] > 0}
            /\ exec = Idle
            /\ waiting = NoCall
            /\ serial = [st |-> st, overlapped |-> FALSE]
            /\ script = NoScript

\* a transaction calling transfer(to, amount) from msgSender
Transfer ==
    \E msgSender \in Address, to \in Address, amount \in Amounts :
        LET r == transfer(Storage, msgSender, to, amount)
        IN  /\ totalSupply' = r.st.totalSupply
            /\ balances' = r.st.balances
            /\ last' = Call("transfer", msgSender, to, amount, to, r.status, r.error, 0)
            /\ pre' = Storage
            /\ received' = IF r.status = "ok" /\ amount > 0
                           THEN received \cup {to} ELSE received
            /\ serial' = [st |-> r.st, overlapped |-> FALSE]
            /\ UNCHANGED <<exec, waiting, script>>

\* a call of the view function balanceOf(account) from msgSender
BalanceOf ==
    \E msgSender \in Address, account \in Address :
        /\ last' = Call("balanceOf", msgSender, msgSender, 0, account, "ok", "",
                        balanceOf(Storage, msgSender, account))
        /\ pre' = Storage
        /\ UNCHANGED <<totalSupply, balances, received>>
        /\ UNCHANGED <<exec, waiting, serial, script>>

Next == Transfer \/ BalanceOf

Spec == Init /\ [][Next]_vars

----------------------------------------------------------------------------
(***************************************************************************)
(* The same contract with transfer executed one statement at a time.       *)
(* Callers submit transfers while another one is executing; the EVM runs   *)
(* one call frame at a time, and other code (a nested call, a read) gets   *)
(* control during a frame only where the frame makes an external call.     *)
(***************************************************************************)

\* amounts submitted here: a partial amount and the whole supply
StepAmounts == {300, InitialSupply}

\* a frame that calls out to the recipient between the debit and the credit
ExternalCallPoints_afterDebit == {"credit"}

\* the statements of transfer before which the frame calls other code:
\* lines 67-69 make no external call
ExternalCallPoints == {}

\* other code can run: no frame is executing, or the frame has called out
CanEnter == exec = Idle \/ exec.pc \in ExternalCallPoints

\* the one-step storage after the call, finished now, is run in one step
Linearize(call) ==
    [st |-> transfer(serial.st, call.sender, call.to, call.amount).st,
     overlapped |-> call.overlapped]

\* a caller submits transfer(to, amount) while a frame executes: it waits
SubmitTransfer ==
    /\ waiting = NoCall
    /\ exec # Idle
    /\ \E msgSender \in Address, to \in Address, amount \in StepAmounts :
           waiting' = [sender |-> msgSender, to |-> to, amount |-> amount,
                       overlapped |->
                           /\ exec # Idle
                           /\ {msgSender, to} \cap {exec.sender, exec.to} # {}]
    /\ UNCHANGED <<totalSupply, balances, last, pre, received, exec, serial,
                   script>>

\* the transfers that can be entered now: the waiting one first; with
\* none waiting and no frame executing, any caller's
Entering ==
    IF waiting # NoCall THEN {waiting}
    ELSE IF exec = Idle
         THEN [sender : Address, to : Address, amount : StepAmounts,
               overlapped : {FALSE}]
         ELSE {}

\* a transfer is entered and its require (line 67) evaluated; from inside
\* another frame it runs to its end as a nested call
BeginTransfer ==
    /\ CanEnter
    /\ waiting' = NoCall
    /\ UNCHANGED script
    /\ \E call \in Entering :
         IF exec = Idle
         THEN IF ~sufficient(balances, call.sender, call.amount)
              THEN /\ last' = Call("transfer", call.sender, call.to,
                                   call.amount, call.to, "reverted",
                                   "Not enough tokens!", 0)
                   /\ pre' = Storage
                   /\ serial' = Linearize(call)
                   /\ UNCHANGED <<totalSupply, balances, received, exec>>
              ELSE /\ exec' = Frame("debit", call, Storage)
                   /\ last' = Call("transfer", call.sender, call.to,
                                   call.amount, call.to, "pending", "", 0)
                   /\ pre' = Storage
                   /\ UNCHANGED <<totalSupply, balances, received, serial>>
         ELSE LET r == transfer(Storage, call.sender, call.to, call.amount)
              IN  /\ totalSupply' = r.st.totalSupply
                  /\ balances' = r.st.balances
                  /\ last' = Call("transfer", call.sender, call.to,
                                  call.amount, call.to, r.status, r.error, 0)
                  /\ pre' = Storage
                  /\ received' = IF r.status = "ok" /\ call.amount > 0
                                 THEN received \cup {call.to} ELSE received
                  /\ serial' = Linearize(call)
                  /\ UNCHANGED exec

\* the frame reverts: its writes are undone and the failure reported
RevertFrame(reason) ==
    /\ totalSupply' = exec.snapshot.totalSupply
    /\ balances' = exec.snapshot.balances
    /\ last' = Call("transfer", exec.sender, exec.to, exec.amount, exec.to,
                    "reverted", reason, 0)
    /\ pre' = exec.snapshot
    /\ serial' = Linearize(exec)
    /\ exec' = Idle
    /\ UNCHANGED received

\* balances[msg.sender] -= amount;
Debit ==
    /\ exec.pc = "debit"
    /\ LET d == checkedSub(balances[exec.sender], exec.amount)
       IN  IF ~d.ok THEN RevertFrame("Panic(0x11)")
           ELSE /\ balances' = [balances EXCEPT ![exec.sender] = d.val]
                /\ exec' = [exec EXCEPT !.pc = "credit"]
                /\ UNCHANGED <<totalSupply, last, pre, received, serial>>
    /\ UNCHANGED <<waiting, script>>

\* balances[to] += amount; and the return
Credit ==
    /\ exec.pc = "credit"
    /\ LET c == checkedAdd(balances[exec.to], exec.amount)
       IN  IF ~c.ok THEN RevertFrame("Panic(0x11)")
           ELSE /\ balances' = [balances EXCEPT ![exec.to] = c.val]
                /\ last' = Call("transfer", exec.sender, exec.to, exec.amount,
                                exec.to, "ok", "", 0)
                /\ pre' = exec.snapshot
                /\ received' = IF exec.amount > 0
                               THEN received \cup {exec.to} ELSE received
                /\ serial' = Linearize(exec)
                /\ exec' = Idle
                /\ UNCHANGED totalSupply
    /\ UNCHANGED <<waiting, script>>

\* an observer calls balanceOf where other code can run
ReadBalance == CanEnter /\ BalanceOf

NextExec ==
    SubmitTransfer \/ BeginTransfer \/ Debit \/ Credit \/ ReadBalance

SpecExec == Init /\ [][NextExec]_vars

----------------------------------------------------------------------------
(***************************************************************************)
(* The deployment script, run by `npx hardhat run`.  Two versions exist:   *)
(* scripts/deploy.js and the one the README gives.  main is an async       *)
(* function: each await either resolves, and main goes on, or rejects, and *)
(* main's promise is rejected with that error.                             *)
(***************************************************************************)

\* largest transaction count of the deployer when the script starts
MaxNonce == 1

DeployJs == "scripts/deploy.js"
Readme   == "README"
ScriptFiles == {DeployJs, Readme}

\* the helpers of the ethers object that the repository's code relies on
EthersHelpers == {"getContractFactory", "getSigners"}

\* the helper each script calls on its first line, if it looks up signers
SignersHelper(file) == IF file = DeployJs THEN "getSighners" ELSE "none"

\* the first statement of main
FirstStep(file) ==
    IF SignersHelper(file) # "none" THEN "getSigners" ELSE "getContractFactory"

\* what follows main's promise once it has resolved: deploy.js chains
\* .then(() => process.exit(0)); the README's script chains nothing
AfterMain(file) == IF file = DeployJs THEN "then" ELSE "drain"

\* the text console.log prints before the address
LogPrefix(file) ==
    IF file = DeployJs THEN "Contract address: " ELSE "Token deployed to:"

\* the address of a contract created by deployer at that nonce
ContractAddress(deployer, nonce) == <<deployer, nonce>>

\* an await rejects, or a call throws: main stops and the catch handler runs
Reject(s, error) == [s EXCEPT !.pc = "catch", !.error = error]

\* a catch handler that logs the error and never sets a failure status
catchHandler_noexit(s) ==
    [s EXCEPT !.stderr = Append(@, s.error), !.pc = "drain"]

\* .catch((error) => { console.error(error); process.exit(1); }) and, in
\* the README, { console.error(error); process.exitCode = 1; }
catchHandler(s) ==
    IF s.file = DeployJs
    THEN [s EXCEPT !.stderr = Append(@, s.error), !.exitCode = 1,
                   !.exits = @ + 1, !.pc = "exited"]
    ELSE [s EXCEPT !.stderr = Append(@, s.error), !.exitCode = 1,
                   !.pc = "drain"]

\* the ledger is not touched by this step of the script
LedgerUnchanged ==
    UNCHANGED <<totalSupply, balances, last, pre, received, exec, waiting,
                serial>>

\* a script is started against a network on which no Token exists yet
InitDeploy ==
    /\ totalSupply = EmptyStorage.totalSupply
    /\ balances = EmptyStorage.balances
    /\ last = Call("none", 0, 0, 0, 0, "ok", "", 0)
    /\ pre = EmptyStorage
    /\ received = {}
    /\ exec = Idle
    /\ waiting = NoCall
    /\ serial = [st |-> EmptyStorage, overlapped |-> FALSE]
    /\ \E file \in ScriptFiles, compiled \in BOOLEAN, networkUp \in BOOLEAN,
          deployer \in Address, nonce \in 0..MaxNonce :
           script = [file |-> file, pc |-> FirstStep(file),
                     compiled |-> compiled, networkUp |-> networkUp,
                     deployer |-> deployer, nonce |-> nonce,
                     error |-> "none", address |-> <<>>,
                     stdout |-> <<>>, stderr |-> <<>>,
                     deploys |-> 0, exitCode |-> 0, exits |-> 0]

\* const [deployer] = await ethers.getSighners();
GetSigners ==
    /\ script.pc = "getSigners"
    /\ script' =
           IF SignersHelper(script.file) \notin EthersHelpers
           THEN Reject(script, "TypeError: not a function")
           ELSE IF ~script.networkUp
                THEN Reject(script, "cannot connect to the network")
                ELSE [script EXCEPT !.pc = "getContractFactory"]
    /\ LedgerUnchanged

\* const Token = await ethers.getContractFactory("Token");
GetContractFactory ==
    /\ script.pc = "getContractFactory"
    /\ script' =
           IF ~script.compiled
           THEN Reject(script, "artifact for contract Token not found")
           ELSE [script EXCEPT !.pc = "deploy"]
    /\ LedgerUnchanged

\* const hardhatToken = await Token.deploy();
Deploy ==
    /\ script.pc = "deploy"
    /\ IF ~script.networkUp
       THEN /\ script' = Reject(script, "cannot connect to the network")
            /\ LedgerUnchanged
       ELSE LET st == constructor(script.deployer)
            IN  /\ script' = [script EXCEPT
                                 !.pc = "log",
                                 !.deploys = @ + 1,
                                 !.address = ContractAddress(script.deployer,
                                                             script.nonce)]
                /\ totalSupply' = st.totalSupply
                /\ balances' = st.balances
                /\ last' = Call("constructor", script.deployer,
                                script.deployer, 0, script.deployer, "ok",
                                "", 0)
                /\ pre' = st
                /\ received' = {a \in Address : st.balances[a] > 0}
                /\ serial' = [st |-> st, overlapped |-> FALSE]
                /\ UNCHANGED <<exec, waiting>>

\* console.log("Contract address: ", hardhatToken.address); main returns
LogAddress ==
    /\ script.pc = "log"
    /\ script' = [script EXCEPT
                     !.stdout = Append(@, <<LogPrefix(script.file),
                                            script.address>>),
                     !.pc = AfterMain(script.file)]
    /\ LedgerUnchanged

\* main's promise was rejected: the catch handler runs
CatchHandler ==
    /\ script.pc = "catch"
    /\ script' = catchHandler(script)
    /\ LedgerUnchanged

\* the process ends: by process.exit(0) in the then handler, or, with
\* nothing left to run, with the status in process.exitCode
ProcessEnd ==
    /\ script.pc \in {"then", "drain"}
    /\ script' = [script EXCEPT
                     !.exitCode = IF script.pc = "then" THEN 0 ELSE @,
                     !.exits = @ + 1,
                     !.pc = "exited"]
    /\ LedgerUnchanged

NextDeploy ==
    \/ GetSigners
    \/ GetContractFactory
    \/ Deploy
    \/ LogAddress
    \/ CatchHandler
    \/ ProcessEnd

SpecDeploy == InitDeploy /\ [][NextDeploy]_vars

\* node runs every continuation that is ready, and every await settles
SpecDeployFair == SpecDeploy /\ WF_vars(NextDeploy)

----------------------------------------------------------------------------
\* the call that produced the current state
IsTransfer == last.op = "transfer"
Succeeded  == last.status = "ok"
Rejected   == last.status = "reverted"
Unchanged  == balances = pre.balances /\ totalSupply = pre.totalSupply

\* C1: in every reachable state the balances of all accounts sum to
\* totalSupply, whatever transfers (successful or rejected) led there.
Conservation == Sum(balances) = totalSupply

\* a transfer between two accounts has moved tokens and both now hold some
ConservationWitness ==
    /\ IsTransfer /\ Succeeded
    /\ last.sender # last.to /\ last.amount > 0
    /\ balances[last.sender] > 0 /\ balances[last.to] > last.amount

\* C2: a transfer that fails leaves the balance of every account, and
\* totalSupply, exactly as they were before the call.
AtomicRejection == (IsTransfer /\ Rejected) => Unchanged

\* a transfer was rejected although sender and recipient both hold tokens
AtomicRejectionWitness ==
    /\ IsTransfer /\ Rejected
    /\ last.sender # last.to
    /\ pre.balances[last.sender] > 0 /\ pre.balances[last.to] > 0

\* C3: a transfer between two different accounts whose sender held at least
\* the amount leaves the sender with its previous balance minus the amount
\* and the recipient with its previous balance plus the amount.
TransferPostcondition ==
    (IsTransfer /\ last.sender # last.to
        /\ pre.balances[last.sender] >= last.amount)
    => /\ balances[last.sender] = pre.balances[last.sender] - last.amount
       /\ balances[last.to] = pre.balances[last.to] + last.amount

\* a positive amount went to a recipient that already held tokens
TransferPostconditionWitness ==
    /\ IsTransfer /\ last.sender # last.to
    /\ last.amount > 0 /\ pre.balances[last.sender] > last.amount
    /\ pre.balances[last.to] > 0
    /\ balances[last.to] = pre.balances[last.to] + last.amount

\* C4: a transfer is rejected exactly when the sender's balance before the
\* call is below the amount, and then with the insufficient-balance error;
\* every other transfer succeeds.
RejectedIffInsufficient ==
    IsTransfer =>
        /\ Rejected <=> (pre.balances[last.sender] < last.amount)
        /\ Rejected => last.error = "Not enough tokens!"
        /\ Succeeded => last.error = ""

\* a sender moved its whole, positive balance and the call succeeded
RejectedIffInsufficientWitness ==
    /\ IsTransfer /\ Succeeded
    /\ last.amount > 0 /\ pre.balances[last.sender] = last.amount

\* C5: right after construction totalSupply is 1000, the creator holds
\* totalSupply and every other account holds nothing.
InitialState ==
    last.op = "constructor" =>
        /\ totalSupply = 1000
        /\ balances[last.sender] = totalSupply
        /\ \A a \in Address \ {last.sender} : balances[a] = 0

\* the contract has just been constructed by the second account
InitialStateWitness ==
    /\ last.op = "constructor" /\ last.sender = 2
    /\ balances[2] = 1000

\* C6: no balance is ever negative or wrapped: every balance is a word of
\* at least zero, and a transfer that succeeded debited a sender that held
\* at least the amount.
NonNegativity ==
    /\ \A a \in Address : balances[a] >= 0 /\ balances[a] <= UintMax
    /\ (IsTransfer /\ Succeeded) =>
           pre.balances[last.sender] - last.amount >= 0

\* a sender was debited down to exactly zero
NonNegativityWitness ==
    /\ IsTransfer /\ Succeeded
    /\ last.sender # last.to /\ last.amount > 0
    /\ balances[last.sender] = 0

\* C7: a transfer from an account to itself succeeds and changes no balance
\* when the account holds at least the amount, and is rejected, changing
\* nothing, when it holds less.
SelfTransfer ==
    (IsTransfer /\ last.sender = last.to) =>
        /\ pre.balances[last.sender] >= last.amount => Succeeded /\ Unchanged
        /\ pre.balances[last.sender] < last.amount => Rejected /\ Unchanged

\* an account sent itself a positive amount it held
SelfTransferWitness ==
    /\ IsTransfer /\ Succeeded
    /\ last.sender = last.to /\ last.amount > 0

\* C8: a transfer of amount zero succeeds and changes no balance, for every
\* sender and recipient, a sender holding nothing included.
ZeroAmountNoOp ==
    (IsTransfer /\ last.amount = 0) => Succeeded /\ Unchanged

\* a sender holding nothing transferred zero to another account
ZeroAmountNoOpWitness ==
    /\ IsTransfer /\ Succeeded /\ last.amount = 0
    /\ last.sender # last.to /\ pre.balances[last.sender] = 0

\* C9: balanceOf never fails, returns the stored balance of the account it
\* is asked about, which is zero for an account that never received tokens,
\* and leaves balances and totalSupply unchanged.
BalanceOfPureRead ==
    last.op = "balanceOf" =>
        /\ Succeeded
        /\ last.ret = pre.balances[last.account]
        /\ last.account \notin received => last.ret = 0
        /\ Unchanged

\* a caller holding tokens read the balance of an account that never
\* received any
BalanceOfPureReadWitness ==
    /\ last.op = "balanceOf"
    /\ last.account \notin received /\ last.ret = 0
    /\ last.sender # last.account /\ balances[last.sender] > 0

\* C10: no call changes totalSupply: every step of transfer or balanceOf
\* leaves it at the value given at construction.
TotalSupplyConstant == [][totalSupply' = totalSupply]_vars

\* a balanceOf call after tokens have moved, with the supply still 1000
TotalSupplyConstantWitness ==
    /\ last.op = "balanceOf" /\ totalSupply = 1000
    /\ \E a \in Address : balances[a] > 0 /\ balances[a] < 1000

\* C14: a transfer, successful or rejected, changes the balance of no
\* account other than its sender and its recipient, and never totalSupply.
TransferFrame ==
    IsTransfer =>
        /\ \A a \in Address \ {last.sender, last.to} :
               balances[a] = pre.balances[a]
        /\ totalSupply = pre.totalSupply

\* tokens moved between two accounts while a third one held some
TransferFrameWitness ==
    /\ IsTransfer /\ Succeeded
    /\ last.sender # last.to /\ last.amount > 0
    /\ \E a \in Address \ {last.sender, last.to} :
           balances[a] > 0 /\ balances[a] = pre.balances[a]

\* C15: an account's balance decreases only in a step that is a successful
\* transfer called by that account; calls by other accounts never reduce it.
OnlyCallerDebited ==
    [][\A a \in Address :
          balances'[a] < balances[a] =>
              /\ last'.op = "transfer"
              /\ last'.sender = a
              /\ last'.status = "ok"]_vars

\* a caller was debited in favour of an account that also holds tokens of
\* its own
OnlyCallerDebitedWitness ==
    /\ IsTransfer /\ Succeeded /\ last.sender # last.to
    /\ balances[last.sender] < pre.balances[last.sender]
    /\ pre.balances[last.to] > 0

\* C16: every balance is at most totalSupply, so the balance the credit
\* reads (the recipient's, after the debit) plus the amount is at most
\* totalSupply, itself below the largest word, and no transfer that passes
\* the sufficient-balance check reverts on the credit.
NoCreditOverflow ==
    /\ totalSupply <= UintMax
    /\ \A a \in Address : balances[a] <= totalSupply
    /\ (IsTransfer /\ pre.balances[last.sender] >= last.amount) =>
           LET atCredit == IF last.to = last.sender
                           THEN pre.balances[last.to] - last.amount
                           ELSE pre.balances[last.to]
           IN  /\ atCredit + last.amount <= pre.totalSupply
               /\ Succeeded
               /\ last.error # "Panic(0x11)"

\* a credit brought a recipient that held tokens up to the whole supply
NoCreditOverflowWitness ==
    /\ IsTransfer /\ Succeeded /\ last.sender # last.to
    /\ last.amount > 0 /\ pre.balances[last.to] > 0
    /\ balances[last.to] = totalSupply

\* C11: wherever a balanceOf read can run, and in the storage every read
\* has seen, the balances sum to totalSupply: no read falls between the
\* debit and the credit of a transfer.
ObserverAtomicity ==
    /\ CanEnter => Sum(balances) = totalSupply
    /\ last.op = "balanceOf" =>
           /\ Sum(pre.balances) = pre.totalSupply
           /\ last.ret = pre.balances[last.account]

\* a read taken between two transfers, the second one submitted while the
\* first was executing, saw the first one's credit
ObserverAtomicityWitness ==
    /\ last.op = "balanceOf" /\ exec = Idle
    /\ waiting # NoCall /\ waiting.overlapped
    /\ last.ret > 0 /\ last.ret < totalSupply
    /\ ~serial.overlapped

\* C13: whenever no transfer is executing, the balances are those of
\* running the finished transfers one at a time, each in one step, in the
\* order they finished; no update is lost, also between transfers that
\* were submitted while another one sharing an account was executing.
Serializable ==
    exec = Idle => Storage = serial.st

\* a transfer submitted during another one on a shared account has moved
\* tokens
SerializableWitness ==
    /\ exec = Idle /\ IsTransfer /\ Succeeded
    /\ serial.overlapped /\ last.amount > 0
    /\ last.sender # last.to

\* the script has exited
Exited == script.pc = "exited"

\* C12: a run of scripts/deploy.js against a reachable network, with Token
\* compiled, deploys the Token exactly once on behalf of the deployer,
\* prints the contract address and exits with status 0.
DeployRunSucceeds ==
    (Exited /\ script.file = DeployJs /\ script.compiled /\ script.networkUp)
    => /\ script.deploys = 1
       /\ last.op = "constructor" /\ last.sender = script.deployer
       /\ balances[script.deployer] = totalSupply
       /\ script.stdout = <<<<LogPrefix(DeployJs), script.address>>>>
       /\ script.exitCode = 0

\* what holds of every state of a run of the script
ExitSafety ==
    /\ script.exits <= 1
    /\ Exited => script.exits = 1
    /\ (Exited /\ script.exitCode = 0) =>
           /\ script.error = "none"
           /\ script.deploys = 1
           /\ Len(script.stdout) = 1
    /\ (Exited /\ script.error # "none") =>
           /\ script.stderr = <<script.error>>
           /\ script.exitCode = 1
           /\ script.stdout = <<>>

\* C17: every run of the script eventually exits, and exits once; it exits
\* with status 0 only if main completed without error; if a step of main
\* threw or rejected, the error is logged, the status is 1 and no contract
\* address is reported.
DeployExitProtocol == []ExitSafety /\ <>Exited

\* scripts/deploy.js has exited with status 1 after logging main's error
DeployExitProtocolWitness ==
    /\ Exited /\ script.file = DeployJs
    /\ script.exits = 1 /\ script.exitCode = 1
    /\ script.stderr = <<script.error>> /\ script.stdout = <<>>

====
